---- MODULE Spec2Model ----
(***************************************************************************)
(* A model of the data-proc crate: the network delivery sink               *)
(* (src/src/http/mod.rs, HttpOutput) and the console adapters              *)
(* (src/src/console/mod.rs, Stdin and Stdout).                             *)
(*                                                                         *)
(* Spec        the network sink draining one upstream stream               *)
(* FairSpec    Spec with the fairness a finite stream and resolving        *)
(*             requests give                                               *)
(* LifeSpec    a sink from HttpOutput::new on: built or not, used, and     *)
(*             then built again or used again with the same answers        *)
(* ConsoleSpec Stdin.into_stream piped into Stdout.output                  *)
(***************************************************************************)
EXTENDS Integers, Sequences, FiniteSets, TLC

\* ------------------------------------------------------------------ bounds

\* the longest upstream stream handed to HttpOutput.output
MaxItems == 3
\* the most bytes standard input holds
MaxBytes == 6
\* the most transient I/O errors standard input reports in one run
MaxIoErrors == 1
\* the longest stream handed to a sink that is used twice
MaxLifeItems == 2

\* ------------------------------------------------------- program constants

\* StatusCode::TOO_MANY_REQUESTS
TOO_MANY_REQUESTS == 429
\* StatusCode::is_success: 200 <= status < 300
SuccessLow == 200
SuccessHigh == 300

\* --------------------------------------------------------------- universes

Items == {"a", "b"}
Urls == {"http://one/"}
Methods == {"POST", "PUT"}
HeaderMaps == {"none", "auth"}
Statuses == {100, 200, 301, 429, 500}
TransportErrors == {"refused"}
BodyTexts == {"Ok", "Err"}
None == "none"

VARIABLES
    \* HttpOutput's fields
    endpoint, method, client,
    \* the upstream stream: what it has still to produce, and what it was
    source, stream, polls,
    \* position in HttpOutput.output, the bound item, the response being read
    pc, item, response,
    \* the network: every request issued, the indices of those unanswered,
    \* and what each was answered with
    requests, inflight, responses,
    \* what the sink did per item: the branch taken and the records logged
    outcomes, log,
    \* the value output returned
    result,
    \* which use of a sink this is (the first, one of a sink built again with
    \* the same configuration, or a second call of output on the same sink),
    \* and what the first use did
    run, first,
    \* standard input: its first content, what is left, the errors reported
    stdin0, stdin, ioErrs,
    \* what the line reader yielded and what into_stream emitted
    reads, emitted,
    \* position in Stdout.output, the bound item, the value returned
    cpc, o, cresult,
    \* standard output: the bytes accepted, and each write call's outcome
    stdout, writes

lifeVars == <<run, first>>

httpVars ==
    <<endpoint, method, client, source, stream, polls, pc, item, response,
      requests, inflight, responses, outcomes, log, result, run, first>>

consoleVars ==
    <<stdin0, stdin, ioErrs, reads, emitted, cpc, o, cresult, stdout, writes>>

vars ==
    <<endpoint, method, client, source, stream, polls, pc, item, response,
      requests, inflight, responses, outcomes, log, result, run, first,
      stdin0, stdin, ioErrs, reads, emitted, cpc, o, cresult, stdout, writes>>

\* ------------------------------------------------------------------ helpers

RECURSIVE SeqsUpTo(_, _)
SeqsUpTo(S, n) ==
    IF n = 0 THEN {<<>>}
    ELSE LET shorter == SeqsUpTo(S, n - 1)
         IN shorter \cup {Append(s, x) : s \in {t \in shorter : Len(t) = n - 1}, x \in S}

Last(s) == s[Len(s)]

\* ------------------------------------------------------- the network sink

\* HttpOutput::new: the client carries the default headers, when given
New(url, m, default_headers) ==
    [endpoint |-> url, method |-> m,
     client |-> [default_headers |-> default_headers]]

\* T: Into<Body>: the item becomes the request's payload
IntoBody(i) == <<"body", i>>

\* BuildRequest, were the default headers kept in one process-wide slot
\* that the first sink built takes
BuildRequestStale(i) ==
    [method |-> "POST", url |-> endpoint,
     headers |-> IF run = "first" THEN client.default_headers ELSE "none",
     body |-> IntoBody(i)]

\* self.client.post(self.endpoint.clone()).body(item.into())
BuildRequest(i) ==
    [method |-> "POST", url |-> endpoint,
     headers |-> client.default_headers, body |-> IntoBody(i)]

\* is_success, were it "not an error status": anything below 400
is_not_error(status) == status < 400

\* StatusCode::is_success
is_success(status) == SuccessLow <= status /\ status < SuccessHigh

\* what the endpoint did with one request: a status, or a transport error
Answer(kind, status, err) == [kind |-> kind, status |-> status, err |-> err]

\* a log record; status 0 and detail None stand for a field the record lacks
Record(level, kind, status, detail) ==
    [level |-> level, kind |-> kind, status |-> status, detail |-> detail]

HttpIdle ==
    /\ pc = "next" /\ item = None /\ response = 0
    /\ polls = 0
    /\ requests = <<>> /\ inflight = {} /\ responses = <<>>
    /\ outcomes = <<>> /\ log = <<>>
    /\ result = "pending"

ConsoleIdle ==
    /\ stdin = stdin0 /\ ioErrs = 0
    /\ reads = <<>> /\ emitted = <<>>
    /\ cpc = "next" /\ o = None /\ cresult = "pending"
    /\ stdout = <<>> /\ writes = <<>>

\* what one use of a sink did
Use(reqs, answers, outs, records, res) ==
    [requests |-> reqs, responses |-> answers, outcomes |-> outs,
     log |-> records, result |-> res]

\* the first use of the sink: nothing to compare with yet
FirstUse ==
    /\ run = "first"
    /\ first = Use(<<>>, <<>>, <<>>, <<>>, "pending")

\* a sink built by HttpOutput::new, handed a finite stream
Init ==
    /\ \E url \in Urls, m \in Methods, h \in HeaderMaps :
          LET self == New(url, m, h)
          IN /\ endpoint = self.endpoint
             /\ method = self.method
             /\ client = self.client
    /\ source \in SeqsUpTo(Items, MaxItems)
    /\ stream = source
    /\ HttpIdle
    /\ FirstUse
    /\ stdin0 = <<>>
    /\ ConsoleIdle

\* Pull, were the items buffered and popped from the back
PullReordered ==
    /\ pc = "next"
    /\ stream # <<>>
    /\ item' = Last(stream)
    /\ stream' = SubSeq(stream, 1, Len(stream) - 1)
    /\ polls' = polls + 1
    /\ pc' = "loop"
    /\ UNCHANGED <<endpoint, method, client, source, response, requests,
                   inflight, responses, outcomes, log, result,
                   lifeVars, consoleVars>>

\* while let Some(item) = stream.next().await
Pull ==
    /\ pc = "next"
    /\ stream # <<>>
    /\ item' = Head(stream)
    /\ stream' = Tail(stream)
    /\ polls' = polls + 1
    /\ pc' = "loop"
    /\ UNCHANGED <<endpoint, method, client, source, response, requests,
                   inflight, responses, outcomes, log, result,
                   lifeVars, consoleVars>>

\* Exhausted, were None awaited again instead of ending the while
ExhaustedPending ==
    /\ pc = "next"
    /\ stream = <<>>
    /\ UNCHANGED vars

\* stream.next() yields None: the while ends and output returns Ok(())
Exhausted ==
    /\ pc = "next"
    /\ stream = <<>>
    /\ polls' = polls + 1
    /\ pc' = "done"
    /\ result' = "Ok"
    /\ UNCHANGED <<endpoint, method, client, source, stream, item, response,
                   requests, inflight, responses, outcomes, log,
                   lifeVars, consoleVars>>

\* Send, were the request spawned and not awaited
SendDetached ==
    /\ pc = "loop"
    /\ requests' = Append(requests, BuildRequest(item))
    /\ inflight' = inflight \cup {Len(requests) + 1}
    /\ item' = None
    /\ pc' = "next"
    /\ UNCHANGED <<endpoint, method, client, source, stream, polls,
                   response, responses, outcomes, log, result,
                   lifeVars, consoleVars>>

\* loop { match self.client.post(..).body(item.into()).send().await
Send ==
    /\ pc = "loop"
    /\ requests' = Append(requests, BuildRequest(item))
    /\ inflight' = inflight \cup {Len(requests) + 1}
    /\ pc' = "send"
    /\ UNCHANGED <<endpoint, method, client, source, stream, polls, item,
                   response, responses, outcomes, log, result,
                   lifeVars, consoleVars>>

\* the request awaited is the one issued last
Awaited == Len(requests)

\* Ok(response) with status.is_success(): break
RespondSuccess ==
    /\ pc = "send" /\ Awaited \in inflight
    /\ \E status \in Statuses :
          /\ is_success(status)
          /\ responses' = Append(responses, Answer("status", status, None))
    /\ inflight' = inflight \ {Awaited}
    /\ outcomes' = Append(outcomes, "Delivered")
    /\ item' = None
    /\ pc' = "next"
    /\ UNCHANGED <<endpoint, method, client, source, stream, polls, response,
                   requests, log, result,
                   lifeVars, consoleVars>>

\* RespondThrottled, were the 429 arm to sleep before the next item
RespondThrottledBackoff ==
    /\ pc = "send" /\ Awaited \in inflight
    /\ \E status \in Statuses :
          /\ ~is_success(status)
          /\ status = TOO_MANY_REQUESTS
          /\ responses' = Append(responses, Answer("status", status, None))
          /\ log' = Append(log, Record("warn", "[429] backoff", 0, None))
    /\ inflight' = inflight \ {Awaited}
    /\ outcomes' = Append(outcomes, "Throttled")
    /\ item' = None
    /\ pc' = "backoff"
    /\ UNCHANGED <<endpoint, method, client, source, stream, polls, response,
                   requests, result,
                   lifeVars, consoleVars>>

\* RespondThrottled, were the 429 arm to continue the loop
RespondThrottledRetry ==
    /\ pc = "send" /\ Awaited \in inflight
    /\ \E status \in Statuses :
          /\ ~is_success(status)
          /\ status = TOO_MANY_REQUESTS
          /\ responses' = Append(responses, Answer("status", status, None))
          /\ log' = Append(log, Record("warn", "[429] backoff", 0, None))
    /\ inflight' = inflight \ {Awaited}
    /\ pc' = "loop"
    /\ UNCHANGED <<endpoint, method, client, source, stream, polls, item,
                   response, requests, outcomes, result,
                   lifeVars, consoleVars>>

\* StatusCode::TOO_MANY_REQUESTS => warn!("[429] backoff"); break
RespondThrottled ==
    /\ pc = "send" /\ Awaited \in inflight
    /\ \E status \in Statuses :
          /\ ~is_success(status)
          /\ status = TOO_MANY_REQUESTS
          /\ responses' = Append(responses, Answer("status", status, None))
          /\ log' = Append(log, Record("warn", "[429] backoff", 0, None))
    /\ inflight' = inflight \ {Awaited}
    /\ outcomes' = Append(outcomes, "Throttled")
    /\ item' = None
    /\ pc' = "next"
    /\ UNCHANGED <<endpoint, method, client, source, stream, polls, response,
                   requests, result,
                   lifeVars, consoleVars>>

\* RespondOther, were a redirect followed by moving the sink's endpoint
RespondOtherRedirects ==
    /\ pc = "send" /\ Awaited \in inflight
    /\ \E status \in Statuses :
          /\ ~is_success(status)
          /\ status # TOO_MANY_REQUESTS
          /\ responses' = Append(responses, Answer("status", status, None))
          /\ response' = status
          /\ endpoint' = IF status = 301 THEN "http://moved/" ELSE endpoint
    /\ inflight' = inflight \ {Awaited}
    /\ pc' = "text"
    /\ UNCHANGED <<method, client, source, stream, polls, item,
                   requests, outcomes, log, result,
                   lifeVars, consoleVars>>

\* _ => the arguments of error! are evaluated: response.text().await
RespondOther ==
    /\ pc = "send" /\ Awaited \in inflight
    /\ \E status \in Statuses :
          /\ ~is_success(status)
          /\ status # TOO_MANY_REQUESTS
          /\ responses' = Append(responses, Answer("status", status, None))
          /\ response' = status
    /\ inflight' = inflight \ {Awaited}
    /\ pc' = "text"
    /\ UNCHANGED <<endpoint, method, client, source, stream, polls, item,
                   requests, outcomes, log, result,
                   lifeVars, consoleVars>>

\* BodyRead, were a failed body read returned with ?
BodyReadPropagates ==
    /\ pc = "text"
    /\ \E text \in BodyTexts :
          \/ /\ text = "Ok"
             /\ log' = Append(log, Record("error", "unexpected status", response, text))
             /\ outcomes' = Append(outcomes, "Rejected")
             /\ pc' = "next"
             /\ result' = result
          \/ /\ text = "Err"
             /\ log' = log
             /\ outcomes' = outcomes
             /\ pc' = "done"
             /\ result' = "Err"
    /\ response' = 0
    /\ item' = None
    /\ UNCHANGED <<endpoint, method, client, source, stream, polls, requests,
                   inflight, responses,
                   lifeVars, consoleVars>>

\* BodyRead, were the arm to lack its break
BodyReadRetry ==
    /\ pc = "text"
    /\ \E text \in BodyTexts :
          log' = Append(log, Record("error", "unexpected status", response, text))
    /\ outcomes' = Append(outcomes, "Rejected")
    /\ response' = 0
    /\ pc' = "loop"
    /\ UNCHANGED <<endpoint, method, client, source, stream, polls, item,
                   requests, inflight, responses, result,
                   lifeVars, consoleVars>>

\* response.text() resolves, Ok or Err: error!("unexpected status ..."); break
BodyRead ==
    /\ pc = "text"
    /\ \E text \in BodyTexts :
          log' = Append(log, Record("error", "unexpected status", response, text))
    /\ outcomes' = Append(outcomes, "Rejected")
    /\ response' = 0
    /\ item' = None
    /\ pc' = "next"
    /\ UNCHANGED <<endpoint, method, client, source, stream, polls, requests,
                   inflight, responses, result,
                   lifeVars, consoleVars>>

\* TransportFail, were the arm to leave the while as well
TransportFailStops ==
    /\ pc = "send" /\ Awaited \in inflight
    /\ \E e \in TransportErrors :
          /\ responses' = Append(responses, Answer("error", 0, e))
          /\ log' = Append(log, Record("error", "error", 0, e))
    /\ inflight' = inflight \ {Awaited}
    /\ outcomes' = Append(outcomes, "TransportError")
    /\ item' = None
    /\ pc' = "done"
    /\ result' = "Ok"
    /\ UNCHANGED <<endpoint, method, client, source, stream, polls, response,
                   requests,
                   lifeVars, consoleVars>>

\* TransportFail, were the error returned with ?
TransportFailPropagates ==
    /\ pc = "send" /\ Awaited \in inflight
    /\ \E e \in TransportErrors :
          responses' = Append(responses, Answer("error", 0, e))
    /\ inflight' = inflight \ {Awaited}
    /\ item' = None
    /\ pc' = "done"
    /\ result' = "Err"
    /\ UNCHANGED <<endpoint, method, client, source, stream, polls, response,
                   requests, outcomes, log,
                   lifeVars, consoleVars>>

\* Err(e) => error!("error: {e:?}"); break
TransportFail ==
    /\ pc = "send" /\ Awaited \in inflight
    /\ \E e \in TransportErrors :
          /\ responses' = Append(responses, Answer("error", 0, e))
          /\ log' = Append(log, Record("error", "error", 0, e))
    /\ inflight' = inflight \ {Awaited}
    /\ outcomes' = Append(outcomes, "TransportError")
    /\ item' = None
    /\ pc' = "next"
    /\ UNCHANGED <<endpoint, method, client, source, stream, polls, response,
                   requests, result,
                   lifeVars, consoleVars>>

Next ==
    \/ Pull
    \/ Exhausted
    \/ Send
    \/ RespondSuccess
    \/ RespondThrottled
    \/ RespondOther
    \/ BodyRead
    \/ TransportFail

Spec == Init /\ [][Next]_vars

\* a finite stream answers each poll, the sink runs when it can, and every
\* request and every body read resolves
Fairness ==
    /\ WF_vars(Pull \/ Exhausted)
    /\ WF_vars(Send)
    /\ WF_vars(RespondSuccess \/ RespondThrottled \/ RespondOther \/ TransportFail)
    /\ WF_vars(BodyRead)

FairSpec == Spec /\ Fairness

\* ------------------------------------------------- the life of a sink

Unbuilt == "unbuilt"

\* before HttpOutput::new has run: no sink yet, the stream waiting
LifeInit ==
    /\ endpoint = Unbuilt
    /\ method = Unbuilt
    /\ client = [default_headers |-> Unbuilt]
    /\ source \in SeqsUpTo(Items, MaxLifeItems)
    /\ stream = source
    /\ pc = "new" /\ item = None /\ response = 0
    /\ polls = 0
    /\ requests = <<>> /\ inflight = {} /\ responses = <<>>
    /\ outcomes = <<>> /\ log = <<>>
    /\ result = "pending"
    /\ FirstUse
    /\ stdin0 = <<>>
    /\ ConsoleIdle

\* HttpOutput::new: client_builder.build() is Ok, Self is returned, and the
\* driver calls output
Build ==
    /\ pc = "new"
    /\ \E url \in Urls, m \in Methods, h \in HeaderMaps :
          LET self == New(url, m, h)
          IN /\ endpoint' = self.endpoint
             /\ method' = self.method
             /\ client' = self.client
    /\ pc' = "next"
    /\ UNCHANGED <<source, stream, polls, item, response, requests, inflight,
                   responses, outcomes, log, result, lifeVars, consoleVars>>

\* HttpOutput::new: client_builder.build() is Err, and unwrap panics; new
\* has no Err to return
BuildPanics ==
    /\ pc = "new"
    /\ pc' = "panicked"
    /\ UNCHANGED <<endpoint, method, client, source, stream, polls, item,
                   response, requests, inflight, responses, outcomes, log,
                   result, lifeVars, consoleVars>>

\* output is entered afresh: nothing pulled, sent, logged or returned yet
OutputCalled ==
    /\ pc' = "next" /\ item' = None /\ response' = 0
    /\ polls' = 0
    /\ requests' = <<>> /\ inflight' = {} /\ responses' = <<>>
    /\ outcomes' = <<>> /\ log' = <<>>
    /\ result' = "pending"

\* output has returned: a second sink is built by HttpOutput::new with the
\* configuration of the first, and handed the same items
Reconstruct ==
    /\ pc = "done" /\ run = "first"
    /\ first' = Use(requests, responses, outcomes, log, result)
    /\ run' = "rebuilt"
    /\ LET self == New(endpoint, method, client.default_headers)
       IN /\ endpoint' = self.endpoint
          /\ method' = self.method
          /\ client' = self.client
    /\ stream' = source
    /\ OutputCalled
    /\ UNCHANGED <<source, consoleVars>>

\* output has returned: it is called again on the same sink (&self), with
\* the same items
CallAgain ==
    /\ pc = "done" /\ run = "first"
    /\ first' = Use(requests, responses, outcomes, log, result)
    /\ run' = "again"
    /\ stream' = source
    /\ OutputCalled
    /\ UNCHANGED <<endpoint, method, client, source, consoleVars>>

\* in the second use the endpoint answers as it did in the first
SameAnswers ==
    run # "first" =>
        /\ Len(responses) <= Len(first.responses)
        /\ \A k \in 1..Len(responses) : responses[k] = first.responses[k]
        /\ \A k \in 1..Len(log) :
              k <= Len(first.log) => log[k].detail = first.log[k].detail

Replayed == Next /\ SameAnswers'

LifeNext ==
    \/ Build
    \/ BuildPanics
    \/ Reconstruct
    \/ CallAgain
    \/ Replayed

LifeSpec == LifeInit /\ [][LifeNext]_vars

\* ---------------------------------------------------- the console adapters

LF == "\n"
CR == "\r"
\* a byte no UTF-8 text holds
BAD == "0xFF"
Bytes == {"a", CR, LF, BAD}

\* read_until(b'\n'): the bytes up to and including the first newline, or all
FirstLine(bytes) ==
    LET at == {i \in 1..Len(bytes) : bytes[i] = LF}
    IN IF at = {} THEN bytes
       ELSE SubSeq(bytes, 1, CHOOSE i \in at : \A j \in at : i <= j)

\* String::from_utf8
Utf8Valid(bytes) == \A i \in 1..Len(bytes) : bytes[i] # BAD

\* Lines: a trailing "\n" is popped, and then a trailing "\r"
StripNewline(line) ==
    LET a == IF line # <<>> /\ Last(line) = LF
             THEN SubSeq(line, 1, Len(line) - 1) ELSE line
    IN IF line # a /\ a # <<>> /\ Last(a) = CR
       THEN SubSeq(a, 1, Len(a) - 1) ELSE a

\* format!("{o}\n")
Format(x) == Append(x, LF)

ReadResult(ok, line, err) == [ok |-> ok, line |-> line, err |-> err]
WriteResult(given, ok, n) == [given |-> given, ok |-> ok, n |-> n]

\* a sink that is not run: the console pipeline runs alone
HttpParked ==
    /\ LET self == New("http://one/", "POST", "none")
       IN /\ endpoint = self.endpoint
          /\ method = self.method
          /\ client = self.client
    /\ source = <<>>
    /\ stream = <<>>
    /\ HttpIdle
    /\ FirstUse

\* Stdin {}.into_stream() handed to Stdout {}.output, standard input holding
\* any bytes
ConsoleInit ==
    /\ HttpParked
    /\ stdin0 \in SeqsUpTo(Bytes, MaxBytes)
    /\ ConsoleIdle

\* stream.next(): the line reader yields Ok(line), line.ok() is Some(line)
ReadOk ==
    /\ cpc = "next"
    /\ stdin # <<>>
    /\ LET raw == FirstLine(stdin)
       IN /\ Utf8Valid(raw)
          /\ stdin' = SubSeq(stdin, Len(raw) + 1, Len(stdin))
          /\ reads' = Append(reads, ReadResult(TRUE, StripNewline(raw), None))
          /\ emitted' = Append(emitted, StripNewline(raw))
          /\ o' = StripNewline(raw)
    /\ cpc' = "write"
    /\ UNCHANGED <<stdin0, ioErrs, cresult, stdout, writes, httpVars>>

\* ReadInvalid, were the stream cut at the first Err (map_while)
ReadInvalidEnds ==
    /\ cpc = "next"
    /\ stdin # <<>>
    /\ LET raw == FirstLine(stdin)
       IN /\ ~Utf8Valid(raw)
          /\ stdin' = SubSeq(stdin, Len(raw) + 1, Len(stdin))
          /\ reads' = Append(reads, ReadResult(FALSE, <<>>, "InvalidData"))
    /\ cpc' = "done"
    /\ cresult' = "Ok"
    /\ UNCHANGED <<stdin0, ioErrs, emitted, o, stdout, writes, httpVars>>

\* the line is not UTF-8: the reader drops it and yields Err, line.ok() is
\* None, and filter_map polls the reader again
ReadInvalid ==
    /\ cpc = "next"
    /\ stdin # <<>>
    /\ LET raw == FirstLine(stdin)
       IN /\ ~Utf8Valid(raw)
          /\ stdin' = SubSeq(stdin, Len(raw) + 1, Len(stdin))
          /\ reads' = Append(reads, ReadResult(FALSE, <<>>, "InvalidData"))
    /\ UNCHANGED <<stdin0, ioErrs, emitted, cpc, o, cresult, stdout, writes,
                   httpVars>>

\* the read itself fails: the reader yields Err and nothing is consumed
ReadIoError ==
    /\ cpc = "next"
    /\ ioErrs < MaxIoErrors
    /\ ioErrs' = ioErrs + 1
    /\ reads' = Append(reads, ReadResult(FALSE, <<>>, "Io"))
    /\ UNCHANGED <<stdin0, stdin, emitted, cpc, o, cresult, stdout, writes,
                   httpVars>>

\* end of input: the reader yields None, the while ends, output returns Ok(())
ReadEof ==
    /\ cpc = "next"
    /\ stdin = <<>>
    /\ cpc' = "done"
    /\ cresult' = "Ok"
    /\ UNCHANGED <<stdin0, stdin, ioErrs, reads, emitted, o, stdout, writes,
                   httpVars>>

\* stdout.write(s.as_bytes()).await.unwrap(): Ok(n), n of the bytes accepted;
\* n is dropped
Write ==
    /\ cpc = "write"
    /\ LET s == Format(o)
       IN \E n \in 1..Len(s) :
             /\ stdout' = stdout \o SubSeq(s, 1, n)
             /\ writes' = Append(writes, WriteResult(Len(s), TRUE, n))
    /\ o' = None
    /\ cpc' = "next"
    /\ UNCHANGED <<stdin0, stdin, ioErrs, reads, emitted, cresult, httpVars>>

\* WriteFail, were the Result dropped (let _ = ...) and not unwrapped
WriteFailIgnored ==
    /\ cpc = "write"
    /\ writes' = Append(writes, WriteResult(Len(Format(o)), FALSE, 0))
    /\ o' = None
    /\ cpc' = "next"
    /\ UNCHANGED <<stdin0, stdin, ioErrs, reads, emitted, cresult, stdout,
                   httpVars>>

\* stdout.write(s.as_bytes()).await.unwrap(): Err(e), and unwrap panics
WriteFail ==
    /\ cpc = "write"
    /\ writes' = Append(writes, WriteResult(Len(Format(o)), FALSE, 0))
    /\ cpc' = "panicked"
    /\ UNCHANGED <<stdin0, stdin, ioErrs, reads, emitted, o, cresult, stdout,
                   httpVars>>

ConsoleNext ==
    \/ ReadOk
    \/ ReadInvalid
    \/ ReadIoError
    \/ ReadEof
    \/ Write
    \/ WriteFail

ConsoleSpec == ConsoleInit /\ [][ConsoleNext]_vars

\* ------------------------------------------- the network sink: properties

\* the items the sink has taken from upstream
Pulled == Len(source) - Len(stream)

\* the four response categories, as the specification names them
Category(answer) ==
    IF answer.kind = "error" THEN "TransportError"
    ELSE IF answer.status \in 200..299 THEN "Delivered"
    ELSE IF answer.status = 429 THEN "Throttled"
    ELSE "Rejected"

\* C1 (order preservation): the bodies of the requests issued are the items
\* in arrival order: the k-th request carries the k-th item, never more
\* requests than items, and at return one request per item.
OrderPreservation ==
    /\ Len(requests) <= Len(source)
    /\ \A k \in 1..Len(requests) : requests[k].body = IntoBody(source[k])
    /\ pc = "done" => Len(requests) = Len(source)

OrderPreservationWitness ==
    /\ pc = "done"
    /\ Len(requests) >= 3
    /\ requests[1].body # requests[2].body
    /\ requests[1].body = requests[3].body

C2Inv ==
    /\ pc \in {"next", "done"} => Len(outcomes) = Pulled
    /\ pc \in {"loop", "send", "text"} => Len(outcomes) = Pulled - 1
    /\ \A k \in 1..Len(outcomes) : outcomes[k] = Category(responses[k])

C2Step ==
    Len(outcomes') # Len(outcomes) =>
        /\ Len(outcomes') = Len(outcomes) + 1
        /\ pc' = "next"

\* C2 (classification completeness): every item pulled gets exactly one
\* classification, the one of the category its request was answered with,
\* and the step that classifies it puts the sink back at pulling the next
\* item.
ClassificationCompleteness == [](C2Inv) /\ [][C2Step]_vars

ClassificationCompletenessWitness ==
    /\ pc = "done"
    /\ Len(outcomes) = 3
    /\ "Delivered" \notin {outcomes[k] : k \in 1..3}
    /\ Cardinality({outcomes[k] : k \in 1..3}) = 3

\* C3 (no propagation): output never returns an Err; it returns Ok(()) and
\* nothing else; answers 200, 429, 500 give Delivered, Throttled, Rejected
\* and three refused connections give three TransportErrors.
NoErrorPropagates ==
    /\ result \in {"pending", "Ok"}
    /\ (pc = "done") <=> (result = "Ok")
    /\ (pc = "done"
        /\ Len(responses) = 3
        /\ \A k \in 1..3 : responses[k].kind = "status"
        /\ <<responses[1].status, responses[2].status, responses[3].status>>
             = <<200, 429, 500>>)
       => outcomes = <<"Delivered", "Throttled", "Rejected">>
    /\ (pc = "done"
        /\ Len(responses) = 3
        /\ \A k \in 1..3 : responses[k].kind = "error")
       => outcomes = <<"TransportError", "TransportError", "TransportError">>

NoErrorPropagatesWitness ==
    /\ result = "Ok"
    /\ Len(responses) = 3
    /\ \A k \in 1..3 : responses[k].kind = "status"
    /\ responses[1].status = 200
    /\ responses[2].status = 429
    /\ responses[3].status = 500

C4Inv ==
    /\ pc = "loop" => Len(requests) = Pulled - 1
    /\ pc # "loop" => Len(requests) = Pulled

C4Step ==
    /\ pc' = "loop" => pc = "next"
    /\ \A k \in 1..Len(outcomes) :
          Len(outcomes') >= k /\ outcomes'[k] = outcomes[k]

\* C4 (no retry): each item causes exactly one request; the inner loop is
\* entered only from the pull and never again for the same item, and an
\* item's outcome, once recorded, stays.
NoRetry == [](C4Inv) /\ [][C4Step]_vars

NoRetryWitness ==
    /\ pc = "done"
    /\ Len(requests) = 3
    /\ outcomes[1] = "Throttled"
    /\ outcomes[2] = "TransportError"

\* C5 (configured method): every request issued carries the method, the URL
\* and the body the sink was configured and handed.
ConfiguredMethodUsed ==
    \A k \in 1..Len(requests) :
        /\ requests[k].method = method
        /\ requests[k].url = endpoint
        /\ requests[k].body = IntoBody(source[k])

C6Step ==
    polls' # polls =>
        /\ inflight = {}
        /\ pc = "next"
        /\ Len(outcomes) = polls

\* C6 (sequential delivery): at most one request is in flight, and upstream
\* is polled only when no request is unanswered and every item pulled so far
\* has been classified.
SequentialDelivery == [](Cardinality(inflight) <= 1) /\ [][C6Step]_vars

SequentialDeliveryWitness ==
    /\ Cardinality(inflight) = 1
    /\ polls = 2
    /\ stream # <<>>

RECURSIVE SplitLines(_)
SplitLines(bytes) ==
    IF bytes = <<>> THEN <<>>
    ELSE LET raw == FirstLine(bytes)
             line == IF Last(raw) = LF THEN SubSeq(raw, 1, Len(raw) - 1) ELSE raw
         IN <<line>> \o SplitLines(SubSeq(bytes, Len(raw) + 1, Len(bytes)))

RECURSIVE Flatten(_)
Flatten(ss) == IF ss = <<>> THEN <<>> ELSE Head(ss) \o Flatten(Tail(ss))

\* standard input is N lines of text, none holding a newline character, each
\* followed by one newline
LinesOnly(bytes) ==
    /\ \A i \in 1..Len(bytes) : bytes[i] \notin {BAD, CR}
    /\ bytes # <<>> => Last(bytes) = LF

ReadsAllOk == \A k \in 1..Len(reads) : reads[k].ok
WritesAllOk == \A k \in 1..Len(writes) : writes[k].ok

\* C8 (line round trip): N input lines, read without error and written
\* without error, come out as N lines, the i-th the i-th input line and one
\* newline, whatever number of bytes each write call accepted.
LineRoundTrip ==
    (cpc = "done" /\ LinesOnly(stdin0) /\ ReadsAllOk /\ WritesAllOk) =>
        LET lines == SplitLines(stdin0)
        IN stdout = Flatten([i \in 1..Len(lines) |-> lines[i] \o <<LF>>])

\* the lines of the input that are text, in order, as the reader renders them
RECURSIVE ValidLines(_)
ValidLines(bytes) ==
    IF bytes = <<>> THEN <<>>
    ELSE LET raw == FirstLine(bytes)
             rest == ValidLines(SubSeq(bytes, Len(raw) + 1, Len(bytes)))
         IN IF Utf8Valid(raw) THEN <<StripNewline(raw)>> \o rest ELSE rest

OkReads == SelectSeq(reads, LAMBDA r : r.ok)

C9Inv ==
    /\ emitted = [k \in 1..Len(OkReads) |-> OkReads[k].line]
    /\ cpc = "done" =>
          /\ stdin = <<>>
          /\ emitted = ValidLines(stdin0)

C9Step ==
    (Len(reads') = Len(reads) + 1 /\ ~Last(reads').ok) =>
        /\ emitted' = emitted
        /\ cpc' = "next"

\* C9 (skip on error): a failed read emits nothing and leaves the stream
\* open; the items emitted are the lines read, in order; the stream ends
\* only at end of input, every line of text before it emitted.
SkipOnError == [](C9Inv) /\ [][C9Step]_vars

SkipOnErrorWitness ==
    /\ cpc = "done"
    /\ Len(reads) >= 4
    /\ reads[1].ok
    /\ ~reads[2].ok /\ reads[2].err = "InvalidData"
    /\ ~reads[3].ok /\ reads[3].err = "Io"
    /\ reads[4].ok
    /\ reads[1].line # reads[4].line

\* C10 as first stated: a failed write is not checked, and the sink goes on
\* to the next item.
FailedWriteIgnored ==
    \A k \in 1..Len(writes) : ~writes[k].ok => cpc \in {"next", "write", "done"}

\* C10 (unchecked write): the byte count a write returns is not checked: a
\* write that accepts fewer bytes than given is the item's only write, and
\* the sink returns Ok(()) at end of input; a write that fails is the last
\* one: unwrap panics, and the sink returns nothing.
UncheckedWriteCount ==
    /\ \A k \in 1..(Len(writes) - 1) : writes[k].ok
    /\ (cpc = "panicked") <=> (writes # <<>> /\ ~Last(writes).ok)
    /\ cpc \in {"next", "done"} => Len(writes) = Len(emitted)
    /\ (cpc = "done") <=> (cresult = "Ok")
    /\ cresult \in {"pending", "Ok"}

UncheckedWriteCountWitness ==
    /\ cpc = "done" /\ cresult = "Ok"
    /\ Len(writes) >= 2
    /\ writes[1].n < writes[1].given
    /\ writes[2].n = writes[2].given

\* ------------------------------------------- the life of a sink: properties

\* C11 (construction failure): when the HTTP client cannot be built, the
\* driver gets an Err result, and the failure takes no other route.
ConstructionFailureIsErr ==
    (pc # "new" /\ endpoint = Unbuilt) =>
        /\ result = "Err"
        /\ pc # "panicked"

Logged ==
    SelectSeq(SubSeq(responses, 1, Len(outcomes)),
              LAMBDA a : ~(a.kind = "status" /\ a.status \in 200..299))

RecordFits(rec, a) ==
    IF a.kind = "error" THEN rec.level = "error" /\ rec.detail = a.err
    ELSE IF a.status = 429 THEN rec.level = "warn"
    ELSE /\ rec.level = "error"
         /\ rec.status = a.status
         /\ rec.detail \in BodyTexts

\* C13 (classification to log): a success status logs nothing, 429 logs one
\* warning, any other status (1xx and 3xx too) logs one error record with
\* the status and what the body read gave, a transport failure logs one
\* error record; no item logs twice.
ClassificationToLog ==
    /\ Len(log) = Len(Logged)
    /\ \A j \in 1..Len(log) : RecordFits(log[j], Logged[j])

ClassificationToLogWitness ==
    /\ pc = "done"
    /\ Len(outcomes) = 3
    /\ Len(log) = 2
    /\ log[1].status = 100
    /\ log[2].status = 301
    /\ outcomes[2] = "Delivered"

C15Step ==
    /\ (Len(outcomes') = Len(outcomes) + 1 /\ Last(outcomes') = "Throttled") =>
          /\ pc' = "next"
          /\ requests' = requests
          /\ inflight' = {}
    /\ (pc = "next" /\ outcomes # <<>> /\ Last(outcomes) = "Throttled") =>
          /\ polls' = polls + 1
          /\ requests' = requests

\* C15 (no backoff): the step that classifies an item as Throttled puts the
\* sink at the pull with no request left or added, and the sink's next step
\* is the poll of upstream.
ThrottledNoBackoff == [][C15Step]_vars

ThrottledNoBackoffWitness ==
    /\ pc = "loop"
    /\ polls = 2
    /\ outcomes = <<"Throttled">>
    /\ Len(requests) = 1

OtherThanBodyRead ==
    \/ Pull \/ Exhausted \/ Send
    \/ RespondSuccess \/ RespondThrottled \/ RespondOther \/ TransportFail

C16Step ==
    /\ (Len(outcomes') = Len(outcomes) + 1 /\ Last(outcomes') = "Rejected") =>
          /\ pc = "text"
          /\ pc' = "next"
          /\ Len(log') = Len(log) + 1
          /\ Last(log').level = "error"
          /\ Last(log').status = response
    /\ pc = "text" =>
          /\ polls' = polls
          /\ Len(outcomes') = Len(outcomes) + 1
          /\ Last(outcomes') = "Rejected"

\* C16 (rejected awaits the body): an item becomes Rejected only by the
\* body read resolving, with one error record, whether the read gave the
\* body or failed; while the read is unresolved nothing else can run, so
\* upstream is not polled.
RejectedAwaitsBody ==
    [](pc = "text" => ~ENABLED OtherThanBodyRead) /\ [][C16Step]_vars

RejectedAwaitsBodyWitness ==
    /\ pc = "loop"
    /\ polls = 2
    /\ outcomes = <<"Rejected">>
    /\ log[1].detail = "Err"

C17Inv ==
    /\ pc = "done" =>
          /\ stream = <<>>
          /\ polls = Len(source) + 1
          /\ Len(requests) = Len(source)
          /\ result = "Ok"
    /\ stream # <<>> => result = "pending"

C17Step == (pc # "done" /\ pc' = "done") => (pc = "next" /\ stream = <<>>)

\* C17 (no early return): output returns only from the poll that finds the
\* stream exhausted; then one request has been issued per item produced; as
\* long as the stream has an item to give, output has not returned.
NeverReturnsEarly == [](C17Inv) /\ [][C17Step]_vars

NeverReturnsEarlyWitness ==
    /\ pc = "done"
    /\ Len(source) = 3
    /\ outcomes[1] = "TransportError"
    /\ outcomes[3] = "Rejected"

\* C18 (frame): output changes none of endpoint, method, client; every
\* request goes to the configured endpoint; a second call on the same sink,
\* with the same items and answers, issues the same requests, classifies
\* and logs the same, and returns the same.
ConfigurationUnchanged ==
    /\ [][pc # "new" => <<endpoint, method, client>>' = <<endpoint, method, client>>]_vars
    /\ [](\A k \in 1..Len(requests) : requests[k].url = endpoint)
    /\ [](run = "again" =>
            /\ Len(requests) <= Len(first.requests)
            /\ \A k \in 1..Len(requests) : requests[k] = first.requests[k]
            /\ Len(outcomes) <= Len(first.outcomes)
            /\ \A k \in 1..Len(outcomes) : outcomes[k] = first.outcomes[k]
            /\ Len(log) <= Len(first.log)
            /\ \A k \in 1..Len(log) : log[k] = first.log[k]
            /\ pc = "done" =>
                  /\ requests = first.requests
                  /\ outcomes = first.outcomes
                  /\ log = first.log
                  /\ result = first.result)

ConfigurationUnchangedWitness ==
    /\ run = "again"
    /\ pc = "done"
    /\ outcomes = <<"Rejected", "Throttled">>
    /\ log[1].status = 301
    /\ requests[1].body # requests[2].body

\* ---------------------------------- the console adapters: order of writes

\* C14 (console sink ordering): one write per item, finished before the
\* next item is pulled, so standard output holds the items' renderings, each
\* with its newline, in arrival order.
ConsoleSinkOrdering ==
    cpc \in {"next", "done"} =>
        /\ Len(writes) = Len(emitted)
        /\ stdout = Flatten([i \in 1..Len(emitted) |-> Format(emitted[i])])

====
